---- MODULE Spec2Model ----
(***************************************************************************)
(* A model of the record-join and field-update operations of dm:           *)
(*   dm/utils/json_util.py  update_fields, _update_fields_unordered,       *)
(*                          update_fields_unordered, read_jsonl,           *)
(*                          write_jsonl                                    *)
(*   dm/update.py           update_with_args                               *)
(* A record is a function from the field names it holds to their values;   *)
(* a JSONL file is a sequence of records.                                  *)
(***************************************************************************)
EXTENDS Integers, Sequences, FiniteSets, TLC

\* ------------------------------------------------------------------ bounds

\* The longest JSONL file of the model, in records.
MaxLen == 2

\* ------------------------------------------------------------ the data

\* The field names of the model's records: the primary key and one other.
Fields == {"id", "b"}

\* The field values. The operations only copy values and compare primary-key
\* values for equality, so two values tell every case apart.
Vals == {1, 2}

\* The values a base record holds under a field other than the primary key.
BaseVals == {1}

\* A record holding field f with a value of V, or not holding it.
Opt(f, V) == {<<>>} \cup {[x \in {f} |-> v] : v \in V}

\* The union of two records over different fields.
Join(r, s) == [f \in DOMAIN r \cup DOMAIN s |-> IF f \in DOMAIN r THEN r[f] ELSE s[f]]

\* Every record over Fields with these values for b: each field present or absent.
RecordsOver(V) == {Join(r, s) : r \in Opt("id", Vals), s \in Opt("b", V)}

\* The records of a base file.
BaseRecords == RecordsOver(BaseVals)

\* The records of the other file of a keyed update: with the primary key and
\* maybe b, or the empty record, which lacks the primary key.
OtherRecords == {r \in RecordsOver(Vals) : "id" \in DOMAIN r} \cup {<<>>}

\* Every file of at most MaxLen records drawn from R.
FilesOf(R) == UNION {[1..n -> R] : n \in 0..MaxLen}

\* Every duplicate-free sequence of field names: a list of columns, or the
\* iteration order of a set or of a dict's keys.
KeyLists ==
    {s \in UNION {[1..n -> Fields] : n \in 0..Cardinality(Fields)} :
        \A i, j \in 1..Len(s) : i # j => s[i] # s[j]}

\* The orders in which a set of field names can be iterated.
OrdersOf(S) == {s \in KeyLists : {s[i] : i \in 1..Len(s)} = S}

\* record[key] = value (a dict item assignment: adds the key or overwrites).
SetItem(record, key, value) ==
    [f \in DOMAIN record \cup {key} |-> IF f = key THEN value ELSE record[f]]

\* No exception.
NoError == <<>>

\* KeyError(key): a dict lookup of a key the dict does not hold.
KeyError(key) == <<"KeyError", key>>

\* ------------------------------------------------------------ json_util

\* read_jsonl: the file's records, in file order.
read_jsonl(file) == file

\* A variant of DictComp in which the first record of a key value stays in
\* the index (d.setdefault(key, jsonl)).
RECURSIVE DictCompFirstWins(_, _, _, _)
DictCompFirstWins(other_jsonl, primary_key, j, d) ==
    IF j > Len(other_jsonl) THEN [dict |-> d, err |-> NoError]
    ELSE IF primary_key \notin DOMAIN other_jsonl[j]
    THEN [dict |-> d, err |-> KeyError(primary_key)]
    ELSE DictCompFirstWins(other_jsonl, primary_key, j + 1,
             IF other_jsonl[j][primary_key] \in DOMAIN d THEN d
             ELSE SetItem(d, other_jsonl[j][primary_key], other_jsonl[j]))

\* A variant of DictComp that leaves a record without the primary key out
\* of the index.
RECURSIVE DictCompSkipUnkeyed(_, _, _, _)
DictCompSkipUnkeyed(other_jsonl, primary_key, j, d) ==
    IF j > Len(other_jsonl) THEN [dict |-> d, err |-> NoError]
    ELSE IF primary_key \notin DOMAIN other_jsonl[j]
    THEN DictCompSkipUnkeyed(other_jsonl, primary_key, j + 1, d)
    ELSE DictCompSkipUnkeyed(other_jsonl, primary_key, j + 1,
             SetItem(d, other_jsonl[j][primary_key], other_jsonl[j]))

\* {jsonl[primary_key]: jsonl for jsonl in other_jsonl}, from record j on:
\* a later record of the same key value replaces the earlier one. A record
\* without the primary key raises KeyError.
RECURSIVE DictComp(_, _, _, _)
DictComp(other_jsonl, primary_key, j, d) ==
    IF j > Len(other_jsonl) THEN [dict |-> d, err |-> NoError]
    ELSE IF primary_key \notin DOMAIN other_jsonl[j]
    THEN [dict |-> d, err |-> KeyError(primary_key)]
    ELSE DictComp(other_jsonl, primary_key, j + 1,
                  SetItem(d, other_jsonl[j][primary_key], other_jsonl[j]))

\* A variant of CopyKeys that keeps a value base already holds
\* (base.setdefault(key, update[key])).
RECURSIVE CopyKeysSetDefault(_, _, _, _)
CopyKeysSetDefault(base, update, keys_to_update, k) ==
    IF k > Len(keys_to_update) THEN [rec |-> base, err |-> NoError]
    ELSE IF keys_to_update[k] \notin DOMAIN update
    THEN [rec |-> base, err |-> KeyError(keys_to_update[k])]
    ELSE CopyKeysSetDefault(
             IF keys_to_update[k] \in DOMAIN base THEN base
             ELSE SetItem(base, keys_to_update[k], update[keys_to_update[k]]),
             update, keys_to_update, k + 1)

\* A variant of CopyKeys that adds to the value base holds (+= for =).
RECURSIVE CopyKeysAccumulate(_, _, _, _)
CopyKeysAccumulate(base, update, keys_to_update, k) ==
    IF k > Len(keys_to_update) THEN [rec |-> base, err |-> NoError]
    ELSE IF keys_to_update[k] \notin DOMAIN update
    THEN [rec |-> base, err |-> KeyError(keys_to_update[k])]
    ELSE CopyKeysAccumulate(
             SetItem(base, keys_to_update[k],
                     IF keys_to_update[k] \in DOMAIN base
                     THEN base[keys_to_update[k]] + update[keys_to_update[k]]
                     ELSE update[keys_to_update[k]]),
             update, keys_to_update, k + 1)

\* A variant of CopyKeys that passes over a name update does not hold
\* (if key in update: ...).
RECURSIVE CopyKeysSkipMissing(_, _, _, _)
CopyKeysSkipMissing(base, update, keys_to_update, k) ==
    IF k > Len(keys_to_update) THEN [rec |-> base, err |-> NoError]
    ELSE IF keys_to_update[k] \notin DOMAIN update
    THEN CopyKeysSkipMissing(base, update, keys_to_update, k + 1)
    ELSE CopyKeysSkipMissing(
             SetItem(base, keys_to_update[k], update[keys_to_update[k]]),
             update, keys_to_update, k + 1)

\* for key in keys_to_update: base[key] = update[key], from key k on.
RECURSIVE CopyKeys(_, _, _, _)
CopyKeys(base, update, keys_to_update, k) ==
    IF k > Len(keys_to_update) THEN [rec |-> base, err |-> NoError]
    ELSE IF keys_to_update[k] \notin DOMAIN update
    THEN [rec |-> base, err |-> KeyError(keys_to_update[k])]
    ELSE CopyKeys(SetItem(base, keys_to_update[k], update[keys_to_update[k]]),
                  update, keys_to_update, k + 1)

\* The warning _update_fields_unordered logs for an unmatched base record.
SkipWarning(primary_key, value) ==
    <<"WARNING", "Primary key %s not found in other file: %s. Skipping...",
      primary_key, ToString(value)>>

\* A variant of UnorderedLoop that leaves the loop at the first unmatched
\* base record (break for continue).
RECURSIVE UnorderedLoopBreak(_, _, _, _, _, _)
UnorderedLoopBreak(base_jsonl, update_dict, primary_key, keys_to_update, i, warned) ==
    IF i > Len(base_jsonl)
    THEN [list |-> base_jsonl, log |-> warned, err |-> NoError]
    ELSE IF primary_key \notin DOMAIN base_jsonl[i]
    THEN [list |-> base_jsonl, log |-> warned, err |-> KeyError(primary_key)]
    ELSE IF base_jsonl[i][primary_key] \notin DOMAIN update_dict
    THEN [list |-> base_jsonl,
          log |-> Append(warned, SkipWarning(primary_key, base_jsonl[i][primary_key])),
          err |-> NoError]
    ELSE LET c == CopyKeys(base_jsonl[i], update_dict[base_jsonl[i][primary_key]],
                           keys_to_update, 1)
             list == [base_jsonl EXCEPT ![i] = c.rec]
         IN  IF c.err # NoError
             THEN [list |-> list, log |-> warned, err |-> c.err]
             ELSE UnorderedLoopBreak(list, update_dict, primary_key, keys_to_update,
                                     i + 1, warned)

\* The for loop of _update_fields_unordered from base record i on: the list
\* as mutated so far, the warnings logged, and the exception that ended it.
RECURSIVE UnorderedLoop(_, _, _, _, _, _)
UnorderedLoop(base_jsonl, update_dict, primary_key, keys_to_update, i, warned) ==
    IF i > Len(base_jsonl)
    THEN [list |-> base_jsonl, log |-> warned, err |-> NoError]
    ELSE IF primary_key \notin DOMAIN base_jsonl[i]
    THEN [list |-> base_jsonl, log |-> warned, err |-> KeyError(primary_key)]
    ELSE IF base_jsonl[i][primary_key] \notin DOMAIN update_dict
    THEN UnorderedLoop(base_jsonl, update_dict, primary_key, keys_to_update, i + 1,
                       Append(warned,
                              SkipWarning(primary_key, base_jsonl[i][primary_key])))
    ELSE LET c == CopyKeys(base_jsonl[i], update_dict[base_jsonl[i][primary_key]],
                           keys_to_update, 1)
             list == [base_jsonl EXCEPT ![i] = c.rec]
         IN  IF c.err # NoError
             THEN [list |-> list, log |-> warned, err |-> c.err]
             ELSE UnorderedLoop(list, update_dict, primary_key, keys_to_update,
                                i + 1, warned)

\* write_jsonl(output_path, data, mode): the file's lines afterwards. Mode "w"
\* truncates the file on opening it, mode "a" appends.
write_jsonl(file, data, mode) == IF mode = "w" THEN data ELSE file \o data

\* str(bool), as an f-string formats a comparison.
FormatBool(x) == IF x THEN "True" ELSE "False"

\* The ValueError update_fields raises when the two files differ in length.
LengthError(base_jsonls, update_jsonls) ==
    <<"ValueError", "Lengths of jsonl files are not the same (",
      FormatBool(Len(base_jsonls) # Len(update_jsonls)), ")">>

\* A variant of OrderedLoop that copies only between records of the same
\* primary-key value (a keyed join in place of the zip).
RECURSIVE OrderedLoopKeyed(_, _, _, _)
OrderedLoopKeyed(base_jsonls, update_jsonls, keys_to_update, i) ==
    IF i > Len(base_jsonls) \/ i > Len(update_jsonls)
    THEN [list |-> base_jsonls, err |-> NoError]
    ELSE IF ~(/\ "id" \in DOMAIN base_jsonls[i]
              /\ "id" \in DOMAIN update_jsonls[i]
              /\ base_jsonls[i]["id"] = update_jsonls[i]["id"])
    THEN OrderedLoopKeyed(base_jsonls, update_jsonls, keys_to_update, i + 1)
    ELSE LET c == CopyKeys(base_jsonls[i], update_jsonls[i], keys_to_update, 1)
             list == [base_jsonls EXCEPT ![i] = c.rec]
         IN  IF c.err # NoError
             THEN [list |-> list, err |-> c.err]
             ELSE OrderedLoopKeyed(list, update_jsonls, keys_to_update, i + 1)

\* The for loop of update_fields over zip(base_jsonls, update_jsonls), from
\* pair i on: the list as mutated so far and the exception that ended it.
RECURSIVE OrderedLoop(_, _, _, _)
OrderedLoop(base_jsonls, update_jsonls, keys_to_update, i) ==
    IF i > Len(base_jsonls) \/ i > Len(update_jsonls)
    THEN [list |-> base_jsonls, err |-> NoError]
    ELSE LET c == CopyKeys(base_jsonls[i], update_jsonls[i], keys_to_update, 1)
             list == [base_jsonls EXCEPT ![i] = c.rec]
         IN  IF c.err # NoError
             THEN [list |-> list, err |-> c.err]
             ELSE OrderedLoop(list, update_jsonls, keys_to_update, i + 1)

\* ------------------------------------------------------------ the state

VARIABLES
    op,              \* the operation that was called
    inputFile,       \* the base file (args.input, base_path)
    otherFile,       \* the other file (args.other, other_path)
    outputFile,      \* the lines of args.output
    columns,         \* args.columns; <<>> when not given
    overwrite,       \* args.overwrite
    pc,              \* where the call stands
    calls,           \* the functions called so far, in order
    other_lines,     \* update_with_args: the other file as first read
    lines,           \* update_with_args: the input file as first read
    keys_to_update,  \* the fields to copy, in iteration order
    base_jsonl,      \* the base records in memory, mutated in place
    other_jsonl,     \* the other records in memory
    update_dict,     \* the join-key index
    logged,          \* what the logger received
    raised,          \* the exception that left the operation, or NoError
    returned,        \* the lists the engine returned, one per call of it
    unreadable,      \* update_with_args: which of "input", "other" cannot be read
    paths,           \* merge_fields: the file at each path
    src_keys,        \* merge_fields: the argument, a name or a list of names
    result_key,      \* merge_fields: the argument; "" when not given
    sources,         \* merge_fields: the lists read, the first mutated in place
    merge_fn_calls,  \* merge_fields: the list each call of merge_fn received
    model_names,     \* multi_field_transform: the argument
    param_key_fn_map,    \* multi_field_transform: parameter name -> key function
    dst_key_fn,          \* multi_field_transform: model name -> destination field
    transform_fn_calls,  \* multi_field_transform: the calls of transform_fn
    argv,            \* cli: the subcommand and the options on the command line
    func,            \* cli: the handler that was run; "" for none
    printed,         \* cli: what the parser printed
    exit_status,     \* cli: the status parse_args exited with; 0 when it returned
    user_input,      \* pick: the line last typed at the prompt
    decided          \* pick: the accepted answer for each record decided so far

\* The state of merge_fields, of multi_field_transform and of cli.
mergeVars == <<paths, src_keys, result_key, sources, merge_fn_calls>>
transformVars == <<model_names, param_key_fn_map, dst_key_fn, transform_fn_calls>>
cliVars == <<argv, func, printed, exit_status>>
pickVars == <<user_input, decided>>

vars == <<op, inputFile, otherFile, outputFile, columns, overwrite, pc, calls,
          other_lines, lines, keys_to_update, base_jsonl, other_jsonl, update_dict,
          logged, raised, returned, unreadable, mergeVars, transformVars, cliVars,
          pickVars>>

\* merge_fields is not running.
MergeIdle ==
    /\ paths = <<>>
    /\ src_keys = <<>>
    /\ result_key = ""
    /\ sources = <<>>
    /\ merge_fn_calls = <<>>

\* multi_field_transform is not running.
TransformIdle ==
    /\ model_names = <<>>
    /\ param_key_fn_map = <<>>
    /\ dst_key_fn = <<>>
    /\ transform_fn_calls = <<>>

\* cli is not running.
CliIdle ==
    /\ argv = <<>>
    /\ func = ""
    /\ printed = <<>>
    /\ exit_status = 0

\* pick is not running.
PickIdle ==
    /\ user_input = <<>>
    /\ decided = <<>>

\* args.key, the primary_key of the update.
PrimaryKey == "id"

\* What args.output holds before the call: a line of an earlier run.
PriorOutput == <<[id |-> 2, b |-> 2]>>

\* What is the same before every call: nothing read, logged, raised or written.
Fresh ==
    /\ outputFile = PriorOutput
    /\ calls = <<>>
    /\ other_lines = <<>>
    /\ lines = <<>>
    /\ base_jsonl = <<>>
    /\ other_jsonl = <<>>
    /\ update_dict = <<>>
    /\ logged = <<>>
    /\ raised = NoError
    /\ returned = <<>>
    /\ MergeIdle
    /\ TransformIdle
    /\ CliIdle
    /\ PickIdle

\* A call of update_fields_unordered(base_path, other_path, primary_key,
\* keys_to_update) with any list of fields.
InitUnordered ==
    /\ op = "update_fields_unordered"
    /\ pc = "unordered_call"
    /\ columns = <<>>
    /\ overwrite = FALSE
    /\ keys_to_update \in KeyLists
    /\ inputFile \in FilesOf(BaseRecords)
    /\ otherFile \in FilesOf(OtherRecords)
    /\ unreadable = {}
    /\ Fresh

\* ------------------------------------------- update_fields_unordered

\* update_fields_unordered reads both files and enters
\* _update_fields_unordered, which builds the join-key index from other.
UnorderedIndex ==
    /\ pc = "unordered_call"
    /\ calls' = calls \o <<"update_fields_unordered", "read_jsonl(base)",
                           "read_jsonl(other)", "_update_fields_unordered">>
    /\ base_jsonl' = read_jsonl(inputFile)
    /\ other_jsonl' = read_jsonl(otherFile)
    /\ LET r == DictComp(read_jsonl(otherFile), PrimaryKey, 1, <<>>)
       IN  IF r.err # NoError
           THEN /\ raised' = r.err
                /\ pc' = "raised"
                /\ UNCHANGED update_dict
           ELSE /\ update_dict' = r.dict
                /\ pc' = "unordered_loop"
                /\ UNCHANGED raised
    /\ UNCHANGED <<mergeVars, transformVars, cliVars, unreadable, pickVars, op,
                   inputFile, otherFile, outputFile, columns, overwrite,
                   other_lines, lines, keys_to_update, logged, returned>>

\* A variant of UnorderedLoopStep that updates a copy of the base records
\* and returns the copy.
UnorderedLoopStepCopying ==
    /\ pc = "unordered_loop"
    /\ LET r == UnorderedLoop(base_jsonl, update_dict, PrimaryKey, keys_to_update,
                              1, <<>>)
       IN  /\ logged' = logged \o r.log
           /\ raised' = r.err
           /\ returned' = IF r.err # NoError THEN returned ELSE Append(returned, r.list)
           /\ pc' = IF r.err # NoError THEN "raised" ELSE "unordered_returned"
    /\ UNCHANGED <<mergeVars, transformVars, cliVars, unreadable, pickVars, op,
                   inputFile, otherFile, outputFile, columns, overwrite, calls,
                   other_lines, lines, keys_to_update, base_jsonl, other_jsonl,
                   update_dict>>

\* _update_fields_unordered: every base record is looked up and updated in
\* place; the list is returned unless a lookup raised.
UnorderedLoopStep ==
    /\ pc = "unordered_loop"
    /\ LET r == UnorderedLoop(base_jsonl, update_dict, PrimaryKey, keys_to_update,
                              1, <<>>)
       IN  /\ base_jsonl' = r.list
           /\ logged' = logged \o r.log
           /\ raised' = r.err
           /\ returned' = IF r.err # NoError THEN returned ELSE Append(returned, r.list)
           /\ pc' = IF r.err # NoError THEN "raised" ELSE "unordered_returned"
    /\ UNCHANGED <<mergeVars, transformVars, cliVars, unreadable, pickVars, op,
                   inputFile, otherFile, outputFile, columns, overwrite, calls,
                   other_lines, lines, keys_to_update, other_jsonl, update_dict>>

\* The caller passes the list it got back to _update_fields_unordered once
\* more, with the same other records, primary key and keys_to_update.
UnorderedAgain ==
    /\ op = "update_fields_unordered"
    /\ pc = "unordered_returned"
    /\ Len(returned) = 1
    /\ calls' = Append(calls, "_update_fields_unordered")
    /\ LET d == DictComp(other_jsonl, PrimaryKey, 1, <<>>)
           r == UnorderedLoop(base_jsonl, d.dict, PrimaryKey, keys_to_update, 1, <<>>)
           err == IF d.err # NoError THEN d.err ELSE r.err
       IN  /\ update_dict' = d.dict
           /\ base_jsonl' = IF d.err # NoError THEN base_jsonl ELSE r.list
           /\ logged' = IF d.err # NoError THEN logged ELSE logged \o r.log
           /\ raised' = err
           /\ returned' = IF err # NoError THEN returned ELSE Append(returned, r.list)
           /\ pc' = IF err # NoError THEN "raised" ELSE "unordered_returned"
    /\ UNCHANGED <<mergeVars, transformVars, cliVars, unreadable, pickVars, op,
                   inputFile, otherFile, outputFile, columns, overwrite,
                   other_lines, lines, keys_to_update, other_jsonl>>

NextUnordered == UnorderedIndex \/ UnorderedLoopStep \/ UnorderedAgain

SpecUnordered == InitUnordered /\ [][NextUnordered]_vars

\* ---------------------------------------------------- update_with_args

\* The lists args.columns is drawn from: not given, one column, two columns.
ColumnLists == {<<>>, <<"b">>, <<"id", "b">>}

\* A variant of ResolveKeys in which --overwrite is looked at before the
\* columns.
ResolveKeysOverwriteFirst(cols, over, first_other, first_base) ==
    IF over THEN OrdersOf(DOMAIN first_other)
    ELSE IF cols # <<>> THEN {cols}
    ELSE OrdersOf(DOMAIN first_other \ DOMAIN first_base)

\* A variant of ResolveKeys that takes every key of other's first record
\* when no columns are given, with or without --overwrite.
ResolveKeysDefaultAll(cols, over, first_other, first_base) ==
    IF cols # <<>> THEN {cols}
    ELSE OrdersOf(DOMAIN first_other)

\* keys_to_update as update_with_args chooses it: the columns given, else with
\* --overwrite the keys of other's first record, else those of them that
\* base's first record does not hold; a dict's keys and a set in any order.
ResolveKeys(cols, over, first_other, first_base) ==
    IF cols # <<>> THEN {cols}
    ELSE IF over THEN OrdersOf(DOMAIN first_other)
    ELSE OrdersOf(DOMAIN first_other \ DOMAIN first_base)

\* What open() and json.loads raise in read_jsonl for a file that is missing
\* or is not JSON lines.
ReadError(which) == <<"OSError", which>>

\* A call of update_with_args(args); a file that cannot be read has no lines.
InitCommand ==
    /\ op = "update_with_args"
    /\ pc = "cmd_read_other"
    /\ columns = <<>>
    /\ overwrite = FALSE
    /\ keys_to_update = <<>>
    /\ inputFile \in FilesOf(BaseRecords)
    /\ otherFile \in FilesOf(OtherRecords)
    /\ unreadable \in SUBSET {"input", "other"}
    /\ "input" \in unreadable => inputFile = <<>>
    /\ "other" \in unreadable => otherFile = <<>>
    /\ Fresh

\* A variant of CmdReadOther without the check for an empty file.
CmdReadOtherUnchecked ==
    /\ pc = "cmd_read_other"
    /\ calls' = Append(calls, "read_jsonl(other)")
    /\ IF "other" \in unreadable
       THEN /\ raised' = ReadError("other")
            /\ pc' = "raised"
            /\ UNCHANGED other_lines
       ELSE /\ other_lines' = read_jsonl(otherFile)
            /\ pc' = "cmd_read_input"
            /\ UNCHANGED raised
    /\ UNCHANGED <<mergeVars, transformVars, cliVars, unreadable, pickVars, op,
                   inputFile, otherFile, outputFile, columns, overwrite, lines,
                   keys_to_update, base_jsonl, other_jsonl, update_dict, logged,
                   returned>>

\* A variant of CmdReadOther that empties the output before it reads, as
\* pick and label do.
CmdReadOtherTruncating ==
    /\ pc = "cmd_read_other"
    /\ calls' = calls \o <<"write_jsonl", "read_jsonl(other)">>
    /\ outputFile' = write_jsonl(outputFile, <<>>, "w")
    /\ IF "other" \in unreadable
       THEN /\ raised' = ReadError("other")
            /\ pc' = "raised"
            /\ UNCHANGED <<other_lines, logged>>
       ELSE /\ other_lines' = read_jsonl(otherFile)
            /\ IF Len(read_jsonl(otherFile)) = 0
               THEN /\ logged' = Append(logged, <<"ERROR", "The other file is empty">>)
                    /\ pc' = "cmd_returned"
               ELSE /\ pc' = "cmd_read_input"
                    /\ UNCHANGED logged
            /\ UNCHANGED raised
    /\ UNCHANGED <<mergeVars, transformVars, cliVars, unreadable, pickVars, op,
                   inputFile, otherFile, columns, overwrite, lines,
                   keys_to_update, base_jsonl, other_jsonl, update_dict,
                   returned>>

\* The other file is read: one that cannot be read raises out of the
\* command; an empty one is logged as an error and the command returns.
CmdReadOther ==
    /\ pc = "cmd_read_other"
    /\ calls' = Append(calls, "read_jsonl(other)")
    /\ IF "other" \in unreadable
       THEN /\ raised' = ReadError("other")
            /\ pc' = "raised"
            /\ UNCHANGED <<other_lines, logged>>
       ELSE /\ other_lines' = read_jsonl(otherFile)
            /\ IF Len(read_jsonl(otherFile)) = 0
               THEN /\ logged' = Append(logged, <<"ERROR", "The other file is empty">>)
                    /\ pc' = "cmd_returned"
               ELSE /\ pc' = "cmd_read_input"
                    /\ UNCHANGED logged
            /\ UNCHANGED raised
    /\ UNCHANGED <<mergeVars, transformVars, cliVars, unreadable, pickVars, op,
                   inputFile, otherFile, outputFile, columns, overwrite, lines,
                   keys_to_update, base_jsonl, other_jsonl, update_dict,
                   returned>>

\* A variant of CmdReadInput in which an empty input is written out as an
\* empty output.
CmdReadInputWritesEmpty ==
    /\ pc = "cmd_read_input"
    /\ IF "input" \in unreadable
       THEN /\ calls' = Append(calls, "read_jsonl(input)")
            /\ raised' = ReadError("input")
            /\ pc' = "raised"
            /\ UNCHANGED <<lines, outputFile>>
       ELSE /\ lines' = read_jsonl(inputFile)
            /\ IF Len(read_jsonl(inputFile)) = 0
               THEN /\ calls' = calls \o <<"read_jsonl(input)", "write_jsonl">>
                    /\ outputFile' = write_jsonl(outputFile, <<>>, "w")
                    /\ pc' = "cmd_returned"
               ELSE /\ calls' = Append(calls, "read_jsonl(input)")
                    /\ pc' = "cmd_resolve"
                    /\ UNCHANGED outputFile
            /\ UNCHANGED raised
    /\ UNCHANGED <<mergeVars, transformVars, cliVars, unreadable, pickVars, op,
                   inputFile, otherFile, columns, overwrite, other_lines,
                   keys_to_update, base_jsonl, other_jsonl, update_dict, logged,
                   returned>>

\* The input file is read: one that cannot be read raises out of the
\* command; an empty one is logged as a warning and the command returns.
CmdReadInput ==
    /\ pc = "cmd_read_input"
    /\ calls' = Append(calls, "read_jsonl(input)")
    /\ IF "input" \in unreadable
       THEN /\ raised' = ReadError("input")
            /\ pc' = "raised"
            /\ UNCHANGED <<lines, logged>>
       ELSE /\ lines' = read_jsonl(inputFile)
            /\ IF Len(read_jsonl(inputFile)) = 0
               THEN /\ logged' = Append(logged, <<"WARNING", "The input file is empty">>)
                    /\ pc' = "cmd_returned"
               ELSE /\ pc' = "cmd_resolve"
                    /\ UNCHANGED logged
            /\ UNCHANGED raised
    /\ UNCHANGED <<mergeVars, transformVars, cliVars, unreadable, pickVars, op,
                   inputFile, otherFile, outputFile, columns, overwrite,
                   other_lines, keys_to_update, base_jsonl, other_jsonl, update_dict,
                   returned>>

\* args.columns and args.overwrite are read, here for the first time, and
\* keys_to_update is chosen; update_fields_unordered is called next.
CmdResolveKeys ==
    /\ pc = "cmd_resolve"
    /\ \E cols \in ColumnLists, over \in BOOLEAN :
        /\ columns' = cols
        /\ overwrite' = over
        /\ keys_to_update' \in ResolveKeys(cols, over, other_lines[1], lines[1])
    /\ pc' = "unordered_call"
    /\ UNCHANGED <<mergeVars, transformVars, cliVars, unreadable, pickVars, op,
                   inputFile, otherFile, outputFile, calls, other_lines, lines,
                   base_jsonl, other_jsonl, update_dict, logged, raised, returned>>

\* The list update_fields_unordered returned is written over args.output.
CmdWrite ==
    /\ op = "update_with_args"
    /\ pc = "unordered_returned"
    /\ calls' = Append(calls, "write_jsonl")
    /\ outputFile' = write_jsonl(outputFile, returned[Len(returned)], "w")
    /\ pc' = "cmd_returned"
    /\ UNCHANGED <<mergeVars, transformVars, cliVars, unreadable, pickVars, op,
                   inputFile, otherFile, columns, overwrite, other_lines, lines,
                   keys_to_update, base_jsonl, other_jsonl, update_dict, logged,
                   raised, returned>>

NextCommand ==
    \/ CmdReadOther
    \/ CmdReadInput
    \/ CmdResolveKeys
    \/ UnorderedIndex
    \/ UnorderedLoopStep
    \/ CmdWrite

SpecCommand == InitCommand /\ [][NextCommand]_vars

\* ------------------------------- the update, called either way

InitUpdate == InitUnordered \/ InitCommand

NextUpdate == NextCommand \/ UnorderedAgain

SpecUpdate == InitUpdate /\ [][NextUpdate]_vars

\* --------------------------------------------------------- update_fields

\* A call of update_fields(base_path, other_path, keys_to_update) with any
\* list of fields; the other file's records hold any of the fields.
InitOrdered ==
    /\ op = "update_fields"
    /\ pc = "ordered_call"
    /\ columns = <<>>
    /\ overwrite = FALSE
    /\ keys_to_update \in KeyLists
    /\ inputFile \in FilesOf(BaseRecords)
    /\ otherFile \in FilesOf(RecordsOver(Vals))
    /\ unreadable = {}
    /\ Fresh

\* update_fields reads both files and raises ValueError if they differ in
\* length.
OrderedCall ==
    /\ pc = "ordered_call"
    /\ calls' = calls \o <<"update_fields", "read_jsonl(base)", "read_jsonl(other)">>
    /\ base_jsonl' = read_jsonl(inputFile)
    /\ other_jsonl' = read_jsonl(otherFile)
    /\ IF Len(read_jsonl(inputFile)) # Len(read_jsonl(otherFile))
       THEN /\ raised' = LengthError(read_jsonl(inputFile), read_jsonl(otherFile))
            /\ pc' = "raised"
       ELSE /\ pc' = "ordered_loop"
            /\ UNCHANGED raised
    /\ UNCHANGED <<mergeVars, transformVars, cliVars, unreadable, pickVars, op,
                   inputFile, otherFile, outputFile, columns, overwrite,
                   other_lines, lines, keys_to_update, update_dict, logged, returned>>

\* update_fields: the records are updated pair by pair, in place; the base
\* list is returned unless a lookup raised.
OrderedLoopStep ==
    /\ pc = "ordered_loop"
    /\ LET r == OrderedLoop(base_jsonl, other_jsonl, keys_to_update, 1)
       IN  /\ base_jsonl' = r.list
           /\ raised' = r.err
           /\ returned' = IF r.err # NoError THEN returned ELSE Append(returned, r.list)
           /\ pc' = IF r.err # NoError THEN "raised" ELSE "ordered_returned"
    /\ UNCHANGED <<mergeVars, transformVars, cliVars, unreadable, pickVars, op,
                   inputFile, otherFile, outputFile, columns, overwrite, calls,
                   other_lines, lines, keys_to_update, other_jsonl, update_dict,
                   logged>>

NextOrdered == OrderedCall \/ OrderedLoopStep

SpecOrdered == InitOrdered /\ [][NextOrdered]_vars

\* ---------------------------------------------------------- merge_fields

\* The update is not running: none of its arguments or locals is set.
UpdateIdle ==
    /\ otherFile = <<>>
    /\ outputFile = PriorOutput
    /\ columns = <<>>
    /\ overwrite = FALSE
    /\ other_lines = <<>>
    /\ keys_to_update = <<>>
    /\ base_jsonl = <<>>
    /\ other_jsonl = <<>>
    /\ update_dict = <<>>
    /\ unreadable = {}

\* Nothing was called, logged, raised or returned.
NothingYet ==
    /\ calls = <<>>
    /\ logged = <<>>
    /\ raised = NoError
    /\ returned = <<>>

\* The records of the files merge_fields reads: numeric fields b and c, one
\* kind without c.
MergeRecords == {[b |-> 1, c |-> 2], [b |-> 2, c |-> 1], [b |-> 2]}

\* How many paths merge_fields is given.
PathCounts == 0..3

\* The src_keys merge_fields is given: one name, or a list of names; the list
\* of one name is shorter than most lists of paths.
SrcKeyArgs ==
    {[str |-> "b"], [list |-> <<"b", "c", "b">>], [list |-> <<"c", "b", "b">>],
     [list |-> <<"b">>]}

\* The result_key merge_fields is given; "" stands for None, both are false
\* in `if not result_key`.
ResultKeyArgs == {"", "c", "r"}

\* A variant of Broadcast that leaves a single name as a list of one.
BroadcastOnce(keys, n) ==
    IF "str" \in DOMAIN keys THEN <<keys.str>> ELSE keys.list

\* src_keys after `if isinstance(src_keys, str): src_keys = [src_keys] *
\* len(paths)`.
Broadcast(keys, n) ==
    IF "str" \in DOMAIN keys THEN [j \in 1..n |-> keys.str] ELSE keys.list

\* A variant of FirstUnequalPair that finds the last such pair.
RECURSIVE LastUnequalPair(_, _)
LastUnequalPair(srcs, j) ==
    IF j >= Len(srcs) THEN 0
    ELSE LET later == LastUnequalPair(srcs, j + 1)
         IN  IF later # 0 THEN later
             ELSE IF Len(srcs[j]) # Len(srcs[j + 1]) THEN j
             ELSE 0

\* `for a, b in pairwise(sources)`: the first j from this one on with
\* len(sources[j]) != len(sources[j+1]), 0 when there is none.
RECURSIVE FirstUnequalPair(_, _)
FirstUnequalPair(srcs, j) ==
    IF j >= Len(srcs) THEN 0
    ELSE IF Len(srcs[j]) # Len(srcs[j + 1]) THEN j
    ELSE FirstUnequalPair(srcs, j + 1)

\* The ValueError of merge_fields, with both lengths formatted.
MergeLengthError(a, b) ==
    <<"ValueError", "Lengths of jsonl files are not the same (", ToString(Len(a)),
      " != ", ToString(Len(b)), ")">>

\* sources[0] of an empty list.
IndexError == <<"IndexError", "list index out of range">>

\* How many pairs zip(sources, src_keys) yields: it stops at the shorter.
ZipLen(srcs, keys) == IF Len(srcs) <= Len(keys) THEN Len(srcs) ELSE Len(keys)

\* source_fields at index i, `[src[i][src_key] for src, src_key in
\* zip(sources, src_keys)]`, built from pair j on; a record without its key
\* raises KeyError.
RECURSIVE Gather(_, _, _, _, _)
Gather(srcs, keys, i, j, acc) ==
    IF j > ZipLen(srcs, keys) THEN [list |-> acc, err |-> NoError]
    ELSE IF keys[j] \notin DOMAIN srcs[j][i]
         THEN [list |-> acc, err |-> KeyError(keys[j])]
         ELSE Gather(srcs, keys, i, j + 1, Append(acc, srcs[j][i][keys[j]]))

\* Python's sum of a list of numbers.
RECURSIVE sum(_)
sum(values) == IF values = <<>> THEN 0 ELSE values[1] + sum(Tail(values))

\* The merge_fn of the call.
merge_fn(source_fields) == sum(source_fields)

\* `del record[key]`.
DelItem(record, key) == [f \in DOMAIN record \ {key} |-> record[f]]

\* A variant of MergeRecord that never deletes the first source field.
MergeRecordKeeping(merged, keys, rkey, merged_field) ==
    SetItem(merged, IF rkey = "" THEN keys[1] ELSE rkey, merged_field)

\* One record of the loop: result_key falls back on src_keys[0], the merged
\* field is stored in sources[0][i] itself, and the first source field is
\* deleted when it is not the result field.
MergeRecord(merged, keys, rkey, merged_field) ==
    LET key == IF rkey = "" THEN keys[1] ELSE rkey
        stored == SetItem(merged, key, merged_field)
    IN  IF keys[1] # key THEN DelItem(stored, keys[1]) ELSE stored

\* The loop of merge_fields from index i on: the sources as they stand (the
\* first one mutated in place), the lists merge_fn was called with, and the
\* error that ended the loop early.  results holds sources[0]'s own records,
\* in order.
RECURSIVE MergeLoop(_, _, _, _, _)
MergeLoop(srcs, keys, rkey, i, fn_calls) ==
    IF i > Len(srcs[1]) THEN [sources |-> srcs, calls |-> fn_calls, err |-> NoError]
    ELSE LET g == Gather(srcs, keys, i, 1, <<>>)
         IN  IF g.err # NoError
             THEN [sources |-> srcs, calls |-> fn_calls, err |-> g.err]
             ELSE MergeLoop(
                    [srcs EXCEPT ![1][i] =
                        MergeRecord(srcs[1][i], keys, rkey, merge_fn(g.list))],
                    keys, rkey, i + 1, Append(fn_calls, g.list))

\* A call of merge_fields(paths, src_keys, merge_fn, result_key).
InitMerge ==
    /\ op = "merge_fields"
    /\ pc = "merge_call"
    /\ paths \in UNION {[1..n -> FilesOf(MergeRecords)] : n \in PathCounts}
    /\ src_keys \in SrcKeyArgs
    /\ result_key \in ResultKeyArgs
    /\ sources = <<>>
    /\ merge_fn_calls = <<>>
    /\ inputFile = <<>>
    /\ lines = <<>>
    /\ UpdateIdle
    /\ NothingYet
    /\ PickIdle
    /\ TransformIdle
    /\ CliIdle

\* merge_fields reads every path and compares the lengths of neighbours; with
\* no path at all `sources[0]` raises.
MergeRead ==
    /\ pc = "merge_call"
    /\ sources' = [j \in 1..Len(paths) |-> read_jsonl(paths[j])]
    /\ LET j == FirstUnequalPair(sources', 1)
       IN  IF j # 0
           THEN /\ raised' = MergeLengthError(sources'[j], sources'[j + 1])
                /\ pc' = "raised"
           ELSE IF Len(paths) = 0
                THEN /\ raised' = IndexError
                     /\ pc' = "raised"
                ELSE /\ pc' = "merge_loop"
                     /\ UNCHANGED raised
    /\ UNCHANGED <<transformVars, cliVars, unreadable, pickVars, op, inputFile, otherFile,
                   outputFile, columns, overwrite, calls, other_lines, lines,
                   keys_to_update, base_jsonl, other_jsonl, update_dict, logged,
                   returned, paths, src_keys, result_key, merge_fn_calls>>

\* The loop of merge_fields: it returns its results, or an exception leaves
\* it with the records before the failing one already merged.
MergeLoopStep ==
    /\ pc = "merge_loop"
    /\ LET r == MergeLoop(sources, Broadcast(src_keys, Len(paths)), result_key, 1,
                          <<>>)
       IN  /\ sources' = r.sources
           /\ merge_fn_calls' = r.calls
           /\ IF r.err = NoError
              THEN /\ returned' = Append(returned, r.sources[1])
                   /\ pc' = "merge_returned"
                   /\ UNCHANGED raised
              ELSE /\ raised' = r.err
                   /\ pc' = "raised"
                   /\ UNCHANGED returned
    /\ UNCHANGED <<transformVars, cliVars, unreadable, pickVars, op, inputFile, otherFile,
                   outputFile, columns, overwrite, calls, other_lines, lines,
                   keys_to_update, base_jsonl, other_jsonl, update_dict, logged,
                   paths, src_keys, result_key>>

NextMerge == MergeRead \/ MergeLoopStep

SpecMerge == InitMerge /\ [][NextMerge]_vars

\* -------------------------------------------------- multi_field_transform

\* The fields of the records multi_field_transform reads.
TransformFields == {"p", "q", "s"}

\* The records of its input file: all three fields, or all but one.
TransformRecords ==
    LET full == [p |-> 1, q |-> 2, s |-> 3]
    IN  {full} \cup {[f \in TransformFields \ {g} |-> full[f]] : g \in TransformFields}

\* The model names, and the lists of them without repetition.
ModelNames == {"m1", "m2"}

ModelNameLists ==
    {s \in UNION {[1..n -> ModelNames] : n \in 0..Cardinality(ModelNames)} :
        \A i, j \in 1..Len(s) : i # j => s[i] # s[j]}

\* The functions from a model name to a field name: a param_key_fn, a
\* dst_key_fn.
KeyFns == [ModelNames -> TransformFields]

\* The parameter names of transform_fn, in the order of
\* param_key_fn_map.items().
ParamNames == <<"x", "y">>

\* The transform_fn of the call, a pure function of its named parameters.
transform_fn(params) == 10 * params["x"] + params["y"]

\* `{param_name: line[param_key_fn(name)] for param_name, param_key_fn in
\* param_key_fn_map.items()}` from the k-th parameter on; a line without the
\* field raises KeyError.
RECURSIVE ReadParams(_, _, _, _, _)
ReadParams(line, name, key_fn_map, k, acc) ==
    IF k > Len(ParamNames) THEN [params |-> acc, err |-> NoError]
    ELSE LET key == key_fn_map[ParamNames[k]][name]
         IN  IF key \notin DOMAIN line
             THEN [params |-> acc, err |-> KeyError(key)]
             ELSE ReadParams(line, name, key_fn_map, k + 1,
                             SetItem(acc, ParamNames[k], line[key]))

\* A variant of StoreResult that leaves a field the line already holds.
StoreResultIfAbsent(line, name, dst_fn, value) ==
    IF dst_fn[name] \in DOMAIN line THEN line
    ELSE SetItem(line, dst_fn[name], value)

\* `line[dst_key_fn(name)] = ...`.
StoreResult(line, name, dst_fn, value) == SetItem(line, dst_fn[name], value)

\* A variant of TransformLine that takes the model names last to first.
RECURSIVE TransformLineReversed(_, _, _, _, _, _, _)
TransformLineReversed(line, i, names, key_fn_map, dst_fn, n, fn_calls) ==
    IF n > Len(names) THEN [line |-> line, calls |-> fn_calls, err |-> NoError]
    ELSE LET name == names[Len(names) + 1 - n]
             r == ReadParams(line, name, key_fn_map, 1, <<>>)
         IN  IF r.err # NoError
             THEN [line |-> line, calls |-> fn_calls, err |-> r.err]
             ELSE TransformLineReversed(
                    StoreResult(line, name, dst_fn, transform_fn(r.params)),
                    i, names, key_fn_map, dst_fn, n + 1,
                    Append(fn_calls, [line |-> i, name |-> name, params |-> r.params]))

\* `for name in model_names` for line i, from the n-th name on: the line as
\* it stands, the calls of transform_fn so far, and the error that ended the
\* loop early.
RECURSIVE TransformLine(_, _, _, _, _, _, _)
TransformLine(line, i, names, key_fn_map, dst_fn, n, fn_calls) ==
    IF n > Len(names) THEN [line |-> line, calls |-> fn_calls, err |-> NoError]
    ELSE LET name == names[n]
             r == ReadParams(line, name, key_fn_map, 1, <<>>)
         IN  IF r.err # NoError
             THEN [line |-> line, calls |-> fn_calls, err |-> r.err]
             ELSE TransformLine(
                    StoreResult(line, name, dst_fn, transform_fn(r.params)),
                    i, names, key_fn_map, dst_fn, n + 1,
                    Append(fn_calls, [line |-> i, name |-> name, params |-> r.params]))

\* `for line in lines` from line i on, the lines mutated in place.
RECURSIVE TransformLoop(_, _, _, _, _, _)
TransformLoop(ls, names, key_fn_map, dst_fn, i, fn_calls) ==
    IF i > Len(ls) THEN [lines |-> ls, calls |-> fn_calls, err |-> NoError]
    ELSE LET r == TransformLine(ls[i], i, names, key_fn_map, dst_fn, 1, fn_calls)
             after == [ls EXCEPT ![i] = r.line]
         IN  IF r.err # NoError
             THEN [lines |-> after, calls |-> r.calls, err |-> r.err]
             ELSE TransformLoop(after, names, key_fn_map, dst_fn, i + 1, r.calls)

\* A call of multi_field_transform(input_path, model_names, transform_fn,
\* param_key_fn_map, dst_key_fn).
InitTransform ==
    /\ op = "multi_field_transform"
    /\ pc = "transform_call"
    /\ inputFile \in FilesOf(TransformRecords)
    /\ model_names \in ModelNameLists
    /\ param_key_fn_map \in [{ParamNames[k] : k \in 1..Len(ParamNames)} -> KeyFns]
    /\ dst_key_fn \in KeyFns
    /\ transform_fn_calls = <<>>
    /\ lines = <<>>
    /\ UpdateIdle
    /\ NothingYet
    /\ PickIdle
    /\ MergeIdle
    /\ CliIdle

\* multi_field_transform reads the file, transforms every line for every
\* model name and returns the lines; an exception leaves it with the lines
\* changed so far.
TransformRun ==
    /\ pc = "transform_call"
    /\ LET r == TransformLoop(read_jsonl(inputFile), model_names, param_key_fn_map,
                              dst_key_fn, 1, <<>>)
       IN  /\ lines' = r.lines
           /\ transform_fn_calls' = r.calls
           /\ IF r.err = NoError
              THEN /\ returned' = Append(returned, r.lines)
                   /\ pc' = "transform_returned"
                   /\ UNCHANGED raised
              ELSE /\ raised' = r.err
                   /\ pc' = "raised"
                   /\ UNCHANGED returned
    /\ UNCHANGED <<mergeVars, cliVars, unreadable, pickVars, op, inputFile, otherFile,
                   outputFile, columns, overwrite, calls, other_lines,
                   keys_to_update, base_jsonl, other_jsonl, update_dict, logged,
                   model_names, param_key_fn_map, dst_key_fn>>

NextTransform == TransformRun

SpecTransform == InitTransform /\ [][NextTransform]_vars

\* ------------------------------------------------------------------ cli

\* The subcommands cli registers with add_parser, and the handler
\* set_defaults(func=...) gives each.
Handlers ==
    [pick |-> "pick", label |-> "label", convert |-> "convert", filter |-> "filter_",
     dedupe |-> "dedupe_with_args", rename |-> "rename_with_args"]

Registered == DOMAIN Handlers

\* What a command line is made of here: a subcommand, none (""), or a word
\* that may or may not be one; and any of these arguments after it, "mode"
\* being the positional one.
CommandWords == Registered \cup {"", "update"}

OptionWords ==
    {"mode", "--input", "--output", "--other", "--key", "--overwrite", "--columns",
     "--mapping"}

\* Which of these arguments each subparser accepts (--input and --output
\* also as the unambiguous prefixes of --input-path and --output-path).
Accepts ==
    [pick |-> {"--input", "--output"},
     label |-> {"--input", "--output"},
     convert |-> {"mode", "--input", "--output", "--columns"},
     filter |-> {"mode", "--input", "--output", "--columns"},
     dedupe |-> {"--input", "--output"},
     rename |-> {"--input", "--output", "--mapping"}]

\* Which of them each subparser requires.
Requires ==
    [pick |-> {"--input"},
     label |-> {"--input"},
     convert |-> {"mode"},
     filter |-> {"mode"},
     dedupe |-> {},
     rename |-> {"--input", "--mapping"}]

\* parser.parse_args() returns a namespace: the command line names no
\* subcommand and nothing else, or a registered subcommand with arguments its
\* subparser accepts, the required ones among them.
Parses(line) ==
    IF line.cmd = "" THEN line.opts = {}
    ELSE /\ line.cmd \in Registered
         /\ line.opts \subseteq Accepts[line.cmd]
         /\ Requires[line.cmd] \subseteq line.opts

\* A run of cli() on a command line.
InitCli ==
    /\ op = "cli"
    /\ pc = "cli_call"
    /\ argv \in [cmd : CommandWords, opts : SUBSET OptionWords]
    /\ func = ""
    /\ printed = <<>>
    /\ exit_status = 0
    /\ inputFile = <<>>
    /\ lines = <<>>
    /\ UpdateIdle
    /\ NothingYet
    /\ PickIdle
    /\ MergeIdle
    /\ TransformIdle

\* args = parser.parse_args(): the namespace carries func when a subcommand
\* was chosen; a command line that does not parse prints the usage with an
\* error and exits with status 2.
CliParse ==
    /\ pc = "cli_call"
    /\ IF Parses(argv)
       THEN /\ func' = IF argv.cmd = "" THEN "" ELSE Handlers[argv.cmd]
            /\ pc' = "cli_parsed"
            /\ UNCHANGED <<printed, exit_status>>
       ELSE /\ printed' = Append(printed, "usage: error")
            /\ exit_status' = 2
            /\ pc' = "cli_exit"
            /\ UNCHANGED func
    /\ UNCHANGED <<mergeVars, transformVars, unreadable, pickVars, op, inputFile,
                   otherFile,
                   outputFile, columns, overwrite, calls, other_lines, lines,
                   keys_to_update, base_jsonl, other_jsonl, update_dict, logged,
                   raised, returned, argv>>

\* `if hasattr(args, 'func'): args.func(args) else: parser.print_help()`.
CliDispatch ==
    /\ pc = "cli_parsed"
    /\ IF func # ""
       THEN /\ calls' = Append(calls, func)
            /\ UNCHANGED printed
       ELSE /\ printed' = Append(printed, "help")
            /\ UNCHANGED calls
    /\ pc' = "cli_returned"
    /\ UNCHANGED <<mergeVars, transformVars, unreadable, pickVars, op, inputFile,
                   otherFile,
                   outputFile, columns, overwrite, other_lines, lines,
                   keys_to_update, base_jsonl, other_jsonl, update_dict, logged,
                   raised, returned, argv, func, exit_status>>

NextCli == CliParse \/ CliDispatch

SpecCli == InitCli /\ [][NextCli]_vars

\* ----------------------------------------------------------------- dedupe

\* The files dedupe reads: up to one record more than MaxLen, so that a
\* repeated key value can come back after another one.
DedupeFiles == UNION {[1..n -> RecordsOver(Vals)] : n \in 0..(MaxLen + 1)}

\* The position in a dict's items of the one with this key, 0 when there is
\* none.
ItemOf(items, key) ==
    IF \E k \in 1..Len(items) : items[k][1] = key
    THEN CHOOSE k \in 1..Len(items) : items[k][1] = key
    ELSE 0

\* A variant of OrderedDictComp in which a key value that comes back moves
\* to the end of the dict.
RECURSIVE OrderedDictCompMoveToEnd(_, _, _, _)
OrderedDictCompMoveToEnd(ls, primary_key, j, items) ==
    IF j > Len(ls) THEN [items |-> items, err |-> NoError]
    ELSE IF primary_key \notin DOMAIN ls[j]
    THEN [items |-> items, err |-> KeyError(primary_key)]
    ELSE LET key == ls[j][primary_key]
             k == ItemOf(items, key)
         IN  OrderedDictCompMoveToEnd(ls, primary_key, j + 1,
                 IF k = 0 THEN Append(items, <<key, ls[j]>>)
                 ELSE Append(SubSeq(items, 1, k - 1) \o SubSeq(items, k + 1, Len(items)),
                             <<key, ls[j]>>))

\* `{line[primary_key]: line for line in lines}` with the order of the dict
\* kept, from line j on: a new key value is added at the end, a key value the
\* dict holds keeps its place and gets the new line.  A line without the
\* primary key raises KeyError.
RECURSIVE OrderedDictComp(_, _, _, _)
OrderedDictComp(ls, primary_key, j, items) ==
    IF j > Len(ls) THEN [items |-> items, err |-> NoError]
    ELSE IF primary_key \notin DOMAIN ls[j]
    THEN [items |-> items, err |-> KeyError(primary_key)]
    ELSE LET key == ls[j][primary_key]
             k == ItemOf(items, key)
         IN  OrderedDictComp(ls, primary_key, j + 1,
                 IF k = 0 THEN Append(items, <<key, ls[j]>>)
                 ELSE [items EXCEPT ![k] = <<key, ls[j]>>])

\* dict.values(): the values in the order of the dict.
DictValues(items) == [k \in 1..Len(items) |-> items[k][2]]

\* A call of dedupe(input_path, primary_key, output_path).
InitDedupe ==
    /\ op = "dedupe"
    /\ pc = "dedupe_call"
    /\ inputFile \in DedupeFiles
    /\ lines = <<>>
    /\ UpdateIdle
    /\ NothingYet
    /\ PickIdle
    /\ MergeIdle
    /\ TransformIdle
    /\ CliIdle

\* dedupe reads the file and rebinds lines to the values of the dict keyed
\* by the primary key.
DedupeIndex ==
    /\ pc = "dedupe_call"
    /\ calls' = Append(calls, "read_jsonl(input)")
    /\ LET r == OrderedDictComp(read_jsonl(inputFile), PrimaryKey, 1, <<>>)
       IN  IF r.err # NoError
           THEN /\ lines' = read_jsonl(inputFile)
                /\ raised' = r.err
                /\ pc' = "raised"
           ELSE /\ lines' = DictValues(r.items)
                /\ pc' = "dedupe_write"
                /\ UNCHANGED raised
    /\ UNCHANGED <<mergeVars, transformVars, cliVars, unreadable, pickVars, op,
                   inputFile, otherFile, outputFile, columns, overwrite,
                   other_lines, keys_to_update, base_jsonl, other_jsonl,
                   update_dict, logged, returned>>

\* The values are written over the output.
DedupeWrite ==
    /\ pc = "dedupe_write"
    /\ calls' = Append(calls, "write_jsonl")
    /\ outputFile' = write_jsonl(outputFile, lines, "w")
    /\ pc' = "dedupe_returned"
    /\ UNCHANGED <<mergeVars, transformVars, cliVars, unreadable, pickVars, op,
                   inputFile, otherFile, columns, overwrite, other_lines, lines,
                   keys_to_update, base_jsonl, other_jsonl, update_dict, logged,
                   raised, returned>>

NextDedupe == DedupeIndex \/ DedupeWrite

SpecDedupe == InitDedupe /\ [][NextDedupe]_vars

\* ------------------------------------------------------------------- pick

\* A line typed at the prompt is a sequence of characters.  The answers
\* drawn here: nothing, a blank, y, Yes, n, N between blanks, no, NO, x.
Answers ==
    {<<>>, <<" ">>, <<"y">>, <<"Y", "e", "s">>, <<"n">>, <<" ", "N", " ">>,
     <<"n", "o">>, <<"N", "O">>, <<"x">>}

\* str.strip(): leading and trailing blanks removed.
RECURSIVE StripLeft(_)
StripLeft(s) == IF s # <<>> /\ s[1] = " " THEN StripLeft(Tail(s)) ELSE s

RECURSIVE StripRight(_)
StripRight(s) ==
    IF s # <<>> /\ s[Len(s)] = " " THEN StripRight(SubSeq(s, 1, Len(s) - 1)) ELSE s

strip(s) == StripRight(StripLeft(s))

\* str.lower(), for the characters of Answers.
LowerChar(c) ==
    CASE c = "Y" -> "y"
      [] c = "N" -> "n"
      [] c = "O" -> "o"
      [] OTHER -> c

lower(s) == [k \in 1..Len(s) |-> LowerChar(s[k])]

\* `user_input.strip().lower() not in ["y", "n", "yes", "no", ""]`.
Accepted(answer) ==
    lower(strip(answer)) \in {<<"y">>, <<"n">>, <<"y", "e", "s">>, <<"n", "o">>, <<>>}

\* `user_input.strip().lower() == "n"`: the record is passed over.
Skips(answer) == lower(strip(answer)) = <<"n">>

\* A call of pick(args).
InitPick ==
    /\ op = "pick"
    /\ pc = "pick_call"
    /\ inputFile \in FilesOf(BaseRecords)
    /\ lines = <<>>
    /\ user_input = <<>>
    /\ decided = <<>>
    /\ UpdateIdle
    /\ NothingYet
    /\ MergeIdle
    /\ TransformIdle
    /\ CliIdle

\* pick reads the input and empties the output.
PickStart ==
    /\ pc = "pick_call"
    /\ lines' = read_jsonl(inputFile)
    /\ calls' = calls \o <<"read_jsonl(input)", "write_jsonl">>
    /\ outputFile' = write_jsonl(outputFile, <<>>, "w")
    /\ pc' = IF Len(read_jsonl(inputFile)) = 0 THEN "pick_returned" ELSE "pick_prompt"
    /\ UNCHANGED <<mergeVars, transformVars, cliVars, unreadable, pickVars, op,
                   inputFile, otherFile, columns, overwrite, other_lines,
                   keys_to_update, base_jsonl, other_jsonl, update_dict, logged,
                   raised, returned>>

\* One input() for the record in turn: an answer that is not accepted leaves
\* the loop where it is; an accepted one decides the record, which is
\* appended to the output unless the answer skips it, and the loop moves on.
PickAsk ==
    /\ pc = "pick_prompt"
    /\ \E answer \in Answers :
        /\ user_input' = answer
        /\ IF ~Accepted(answer)
           THEN UNCHANGED <<decided, outputFile, calls, pc>>
           ELSE /\ decided' = Append(decided, answer)
                /\ IF Skips(answer)
                   THEN UNCHANGED <<outputFile, calls>>
                   ELSE /\ outputFile' =
                            write_jsonl(outputFile, <<lines[Len(decided) + 1]>>, "a")
                        /\ calls' = Append(calls, "write_jsonl")
                /\ pc' = IF Len(decided) + 1 = Len(lines)
                         THEN "pick_returned" ELSE "pick_prompt"
    /\ UNCHANGED <<mergeVars, transformVars, cliVars, unreadable, op,
                   inputFile, otherFile, columns, overwrite, other_lines, lines,
                   keys_to_update, base_jsonl, other_jsonl, update_dict, logged,
                   raised, returned>>

NextPick == PickStart \/ PickAsk

SpecPick == InitPick /\ [][NextPick]_vars

\* ------------------------------------------------------ every operation

Init ==
    \/ InitUnordered
    \/ InitCommand
    \/ InitOrdered
    \/ InitMerge
    \/ InitTransform
    \/ InitCli
    \/ InitDedupe
    \/ InitPick

Next ==
    \/ NextCommand
    \/ UnorderedAgain
    \/ NextOrdered
    \/ NextMerge
    \/ NextTransform
    \/ NextCli
    \/ NextDedupe
    \/ NextPick

Spec == Init /\ [][Next]_vars

\* ------------------------------------------------ the claims' vocabulary

\* The names in a list of keys.
Names(keys) == {keys[k] : k \in 1..Len(keys)}

\* Every record of the file holds the primary key.
AllKeyed(file) == \A j \in 1..Len(file) : PrimaryKey \in DOMAIN file[j]

\* The positions of the file's records whose primary key has value v.
Positions(file, v) ==
    {j \in 1..Len(file) : PrimaryKey \in DOMAIN file[j] /\ file[j][PrimaryKey] = v}

\* No two records of the file share a primary-key value.
NoDuplicates(file) ==
    \A i, j \in 1..Len(file) :
        (/\ PrimaryKey \in DOMAIN file[i]
         /\ PrimaryKey \in DOMAIN file[j]
         /\ file[i][PrimaryKey] = file[j][PrimaryKey]) => i = j

\* Base record i holds the primary key and some other record has its value.
Matched(i) ==
    /\ PrimaryKey \in DOMAIN inputFile[i]
    /\ Positions(otherFile, inputFile[i][PrimaryKey]) # {}

\* Base record i holds the primary key and no other record has its value.
Unmatched(i) ==
    /\ PrimaryKey \in DOMAIN inputFile[i]
    /\ Positions(otherFile, inputFile[i][PrimaryKey]) = {}

\* The last record of other with the primary-key value of base record i.
LastMatch(i) ==
    LET P == Positions(otherFile, inputFile[i][PrimaryKey])
    IN  otherFile[CHOOSE j \in P : \A k \in P : k <= j]

\* The first call of the engine has returned, and no second one was made.
ReturnedOnce == pc = "unordered_returned" /\ Len(returned) = 1

\* The first name of keys_to_update that record r does not hold.
FirstMissing(r) ==
    keys_to_update[CHOOSE k \in 1..Len(keys_to_update) :
        /\ keys_to_update[k] \notin DOMAIN r
        /\ \A m \in 1..(k - 1) : keys_to_update[m] \in DOMAIN r]

\* Base record i is matched and its match lacks a name of keys_to_update.
MatchLacksKey(i) ==
    Matched(i) /\ ~(Names(keys_to_update) \subseteq DOMAIN LastMatch(i))

\* ------------------------------------------------------------------ C1

C1_Pre ==
    /\ AllKeyed(inputFile)
    /\ AllKeyed(otherFile)
    /\ NoDuplicates(otherFile)
    /\ \A i \in 1..Len(inputFile) : Matched(i)

\* C1: with every record keyed, no duplicate key in other and every base key
\* present in other, the unordered update returns a list of base's length and
\* order in which every field of keys_to_update equals that field of the
\* matched other record and every other field of base keeps its value; the
\* call fails only when a matched record lacks a field of keys_to_update.
C1_UnorderedUpdate ==
    C1_Pre =>
        /\ ReturnedOnce =>
            /\ Len(returned[1]) = Len(inputFile)
            /\ \A i \in 1..Len(inputFile) :
                /\ DOMAIN returned[1][i] = DOMAIN inputFile[i] \cup Names(keys_to_update)
                /\ \A f \in Names(keys_to_update) :
                       /\ f \in DOMAIN LastMatch(i)
                       /\ returned[1][i][f] = LastMatch(i)[f]
                /\ \A f \in DOMAIN inputFile[i] \ Names(keys_to_update) :
                       returned[1][i][f] = inputFile[i][f]
        /\ pc = "raised" => \E i \in 1..Len(inputFile) : MatchLacksKey(i)

\* The scenario of the claim: other holds base's keys in the opposite order.
C1_Witness ==
    /\ ReturnedOnce
    /\ C1_Pre
    /\ inputFile = <<[id |-> 1], [id |-> 2]>>
    /\ otherFile = <<[id |-> 2, b |-> 2], [id |-> 1, b |-> 1]>>
    /\ keys_to_update = <<"b">>
    /\ returned[1] = <<[id |-> 1, b |-> 1], [id |-> 2, b |-> 2]>>

\* ------------------------------------------------------------------ C2

\* C2: every matched base record gets its keys_to_update fields from the last
\* other record with its key value, and an exception is only ever a KeyError
\* for a field that is really absent: duplicates are no error.
C2_LastDuplicateWins ==
    /\ ReturnedOnce =>
        \A i \in 1..Len(inputFile) :
            Matched(i) =>
                \A f \in Names(keys_to_update) :
                    /\ f \in DOMAIN LastMatch(i)
                    /\ returned[1][i][f] = LastMatch(i)[f]
    /\ pc = "raised" =>
        \/ /\ raised = KeyError(PrimaryKey)
           /\ ~AllKeyed(otherFile) \/ ~AllKeyed(inputFile)
        \/ /\ AllKeyed(otherFile)
           /\ \E i \in 1..Len(inputFile) :
                  MatchLacksKey(i) /\ raised = KeyError(FirstMissing(LastMatch(i)))

\* Two other records share base's key value and differ in b: b is the later one's.
C2_Witness ==
    /\ ReturnedOnce
    /\ keys_to_update = <<"b">>
    /\ \E i \in 1..Len(inputFile) :
        /\ Matched(i)
        /\ \E j, k \in Positions(otherFile, inputFile[i][PrimaryKey]) :
            /\ j < k
            /\ "b" \in DOMAIN otherFile[j]
            /\ otherFile[j]["b"] # otherFile[k]["b"]
            /\ returned[1][i]["b"] = otherFile[k]["b"]

\* ------------------------------------------------------------------ C3

\* C3: a second update of the returned list with the same other records and
\* keys_to_update succeeds and returns a list equal to the first result.
C3_Idempotent ==
    /\ Len(returned) = 2 => returned[2] = returned[1]
    /\ Len(returned) >= 1 => pc # "raised"

\* Applied twice, with the primary key among keys_to_update, one base record
\* unmatched and one changed by the update.
C3_Witness ==
    /\ Len(returned) = 2
    /\ PrimaryKey \in Names(keys_to_update)
    /\ \E i \in 1..Len(inputFile) : Unmatched(i)
    /\ \E i \in 1..Len(inputFile) : Matched(i) /\ returned[2][i] # inputFile[i]

\* ------------------------------------------------------------------ C4

\* The warnings for the unmatched records among base records i.., in order.
RECURSIVE SkipWarnings(_)
SkipWarnings(i) ==
    IF i > Len(inputFile) THEN <<>>
    ELSE IF Unmatched(i)
    THEN <<SkipWarning(PrimaryKey, inputFile[i][PrimaryKey])>> \o SkipWarnings(i + 1)
    ELSE SkipWarnings(i + 1)

\* C4: an unmatched base record is never changed and keeps its position; when
\* the update returns, one warning per unmatched record was logged, in base
\* order, and the matched records, also those after an unmatched one, are
\* updated.
C4_UnmatchedSkipped ==
    /\ pc # "unordered_call" =>
        \A i \in 1..Len(inputFile) : Unmatched(i) => base_jsonl[i] = inputFile[i]
    /\ ReturnedOnce =>
        /\ Len(returned[1]) = Len(inputFile)
        /\ logged = SkipWarnings(1)
        /\ \A i \in 1..Len(inputFile) :
            /\ Unmatched(i) => returned[1][i] = inputFile[i]
            /\ Matched(i) => \A f \in Names(keys_to_update) :
                                 f \in DOMAIN returned[1][i]
                                 /\ returned[1][i][f] = LastMatch(i)[f]

\* An unmatched record first, then a matched one that gained b.
C4_Witness ==
    /\ ReturnedOnce
    /\ Len(inputFile) = 2
    /\ Unmatched(1)
    /\ Matched(2)
    /\ keys_to_update = <<"b">>
    /\ "b" \notin DOMAIN inputFile[2]
    /\ "b" \in DOMAIN returned[1][2]
    /\ returned[1][1] = inputFile[1]
    /\ Len(logged) = 1

\* ------------------------------------------------------------------ C8

\* The first base record that stops the loop: it lacks the primary key, or
\* its match lacks a name of keys_to_update.
Stops(i) == PrimaryKey \notin DOMAIN inputFile[i] \/ MatchLacksKey(i)

FirstStop == CHOOSE i \in 1..Len(inputFile) : Stops(i) /\ \A m \in 1..(i - 1) : ~Stops(m)

\* C8: when the index was built and the first record to stop the loop is a
\* matched one whose match lacks a name of keys_to_update, the loop ends with
\* KeyError of the first such name: nothing is returned, the name is not
\* written into the record, and no later record is touched. The update
\* returns only if no matched record lacks a name.
C8_MissingField ==
    /\ (/\ pc \in {"raised", "unordered_returned"}
        /\ Len(returned) <= 1
        /\ AllKeyed(otherFile)
        /\ \E i \in 1..Len(inputFile) : Stops(i)
        /\ MatchLacksKey(FirstStop)) =>
            /\ pc = "raised"
            /\ raised = KeyError(FirstMissing(LastMatch(FirstStop)))
            /\ returned = <<>>
            /\ LET f == FirstMissing(LastMatch(FirstStop))
               IN  f \in DOMAIN base_jsonl[FirstStop] =>
                       /\ f \in DOMAIN inputFile[FirstStop]
                       /\ base_jsonl[FirstStop][f] = inputFile[FirstStop][f]
            /\ \A i \in (FirstStop + 1)..Len(inputFile) : base_jsonl[i] = inputFile[i]
    /\ ReturnedOnce => \A i \in 1..Len(inputFile) : ~MatchLacksKey(i)

\* A matched record whose match lacks b stops the update with KeyError('b').
C8_Witness ==
    /\ pc = "raised"
    /\ AllKeyed(otherFile)
    /\ AllKeyed(inputFile)
    /\ raised = KeyError("b")
    /\ returned = <<>>

\* ------------------------------------------------------------------ C5

\* update_with_args has read the other file.
OtherWasRead ==
    op = "update_with_args" /\ pc # "cmd_read_other" /\ "other" \notin unreadable

\* C5 as stated: with an empty other file the update ends in an error raised
\* to the caller, before the index is built and before base is read, and
\* nothing is written.
C5_EmptyOtherRaises ==
    (OtherWasRead /\ otherFile = <<>>) =>
        /\ pc = "raised"
        /\ raised # NoError
        /\ calls = <<"read_jsonl(other)">>
        /\ outputFile = PriorOutput

\* C5, amended: with an empty other file update_with_args logs the error
\* "The other file is empty" and returns without raising; it has then only
\* read the other file: base is not read, no index is built and the output
\* is not opened.
C5_EmptyOtherLogged ==
    (OtherWasRead /\ otherFile = <<>>) =>
        /\ pc = "cmd_returned"
        /\ raised = NoError
        /\ logged = << <<"ERROR", "The other file is empty">> >>
        /\ calls = <<"read_jsonl(other)">>
        /\ lines = <<>>
        /\ base_jsonl = <<>>
        /\ update_dict = <<>>
        /\ returned = <<>>
        /\ outputFile = PriorOutput

\* The scenario of the claim: base holds one record, other none.
C5_Witness ==
    /\ op = "update_with_args"
    /\ pc = "cmd_returned"
    /\ inputFile = <<[id |-> 1]>>
    /\ otherFile = <<>>

\* ------------------------------------------------------------------ C6

\* The engine was called on its own and has left the call.
EngineLeft ==
    op = "update_fields_unordered" /\ pc \in {"unordered_returned", "raised"}

\* update_with_args has read both files.
InputWasRead ==
    /\ op = "update_with_args"
    /\ pc \notin {"cmd_read_other", "cmd_read_input"}
    /\ unreadable = {}

C6_Pre == inputFile = <<>> /\ otherFile # <<>>

\* C6 as stated: with an empty base and a non-empty other the engine returns
\* the empty list, and update_with_args returns normally having written an
\* output of zero records.
C6_EmptyBaseWritten ==
    C6_Pre =>
        /\ (EngineLeft /\ AllKeyed(otherFile)) =>
               pc = "unordered_returned" /\ returned[Len(returned)] = <<>>
        /\ InputWasRead =>
               /\ pc = "cmd_returned"
               /\ raised = NoError
               /\ outputFile = <<>>

\* C6, amended: with an empty base and a non-empty other whose records all
\* hold the primary key the engine returns the empty list and logs nothing
\* (it raises KeyError only for an other record without the primary key);
\* update_with_args logs the warning "The input file is empty" and returns
\* normally without calling the engine and without opening the output.
C6_EmptyBaseSkipped ==
    C6_Pre =>
        /\ EngineLeft =>
               IF AllKeyed(otherFile)
               THEN /\ pc = "unordered_returned"
                    /\ returned[Len(returned)] = <<>>
                    /\ logged = <<>>
               ELSE pc = "raised" /\ raised = KeyError(PrimaryKey)
        /\ InputWasRead =>
               /\ pc = "cmd_returned"
               /\ raised = NoError
               /\ logged = << <<"WARNING", "The input file is empty">> >>
               /\ calls = <<"read_jsonl(other)", "read_jsonl(input)">>
               /\ returned = <<>>
               /\ outputFile = PriorOutput

\* update_with_args has returned on an empty input file.
C6_Witness ==
    /\ op = "update_with_args"
    /\ pc = "cmd_returned"
    /\ C6_Pre
    /\ "write_jsonl" \notin Names(calls)

\* ------------------------------------------------------------------ C7

\* update_with_args has chosen keys_to_update.
Resolved ==
    /\ op = "update_with_args"
    /\ pc \notin {"cmd_read_other", "cmd_read_input", "cmd_resolve"}
    /\ otherFile # <<>>
    /\ inputFile # <<>>

LengthMismatch ==
    /\ op = "update_fields"
    /\ pc = "raised"
    /\ Len(inputFile) # Len(otherFile)

\* The text n is one of the parts of the exception's message.
Reports(n) == \E k \in 2..Len(raised) : raised[k] = ToString(n)

\* C9: update_fields on files of different lengths raises a ValueError whose
\* message holds both lengths, with no base record modified and nothing
\* returned.
C9_LengthMismatchReported ==
    /\ (op = "update_fields" /\ pc # "ordered_call" /\ Len(inputFile) # Len(otherFile)) =>
           pc = "raised"
    /\ LengthMismatch =>
        /\ raised[1] = "ValueError"
        /\ base_jsonl = inputFile
        /\ returned = <<>>
        /\ Reports(Len(inputFile))
        /\ Reports(Len(otherFile))

\* ------------------------------------------------------------------ C10

\* Other record i lacks a name of keys_to_update.
PairLacksKey(i) == ~(Names(keys_to_update) \subseteq DOMAIN otherFile[i])

FirstLackingPair ==
    CHOOSE i \in 1..Len(otherFile) : PairLacksKey(i) /\ \A m \in 1..(i - 1) : ~PairLacksKey(m)

\* C10: on files of equal length update_fields returns a list of base's
\* length in which record i holds every field of keys_to_update with the value
\* of other's record i, whatever the two records' primary keys, and base's
\* remaining fields unchanged; it raises KeyError, for the first missing name
\* of the first such pair, exactly when some other record lacks a name of
\* keys_to_update.
C10_OrderedZip ==
    (op = "update_fields" /\ pc # "ordered_call" /\ Len(inputFile) = Len(otherFile)) =>
        /\ pc = "ordered_returned" =>
            /\ Len(returned[1]) = Len(inputFile)
            /\ \A i \in 1..Len(inputFile) :
                /\ DOMAIN returned[1][i] = DOMAIN inputFile[i] \cup Names(keys_to_update)
                /\ \A f \in Names(keys_to_update) : returned[1][i][f] = otherFile[i][f]
                /\ \A f \in DOMAIN inputFile[i] \ Names(keys_to_update) :
                       returned[1][i][f] = inputFile[i][f]
        /\ pc \in {"ordered_returned", "raised"} =>
            IF \E i \in 1..Len(otherFile) : PairLacksKey(i)
            THEN /\ pc = "raised"
                 /\ raised = KeyError(FirstMissing(otherFile[FirstLackingPair]))
                 /\ returned = <<>>
            ELSE pc = "ordered_returned"

\* Two pairs of records with different primary keys, b copied by position.
C10_Witness ==
    /\ op = "update_fields"
    /\ pc = "ordered_returned"
    /\ keys_to_update = <<"b">>
    /\ inputFile = <<[id |-> 1, b |-> 1], [id |-> 2]>>
    /\ otherFile = <<[id |-> 2, b |-> 2], [id |-> 1, b |-> 1]>>
    /\ returned[1] = <<[id |-> 1, b |-> 2], [id |-> 2, b |-> 1]>>

\* ------------------------------------------- merge_fields: vocabulary

\* src_keys as the loop of merge_fields uses it.
MergeKeys == Broadcast(src_keys, Len(paths))

\* The field the merged value is stored under.
MergeResultKey == IF result_key = "" THEN MergeKeys[1] ELSE result_key

\* merge_fields has returned its results.
MergeReturned == op = "merge_fields" /\ pc = "merge_returned"

\* merge_fields has read its paths.
MergeLeftRead == op = "merge_fields" /\ pc # "merge_call"

\* There is a source field name for every path.
KeysCover == Len(MergeKeys) >= Len(paths)

\* Two of the files differ in length.
LengthsDiffer == \E j, k \in 1..Len(paths) : Len(paths[j]) # Len(paths[k])

\* The first path whose file differs in length from the next one's.
FirstDifferingPair ==
    CHOOSE j \in 1..(Len(paths) - 1) :
        /\ Len(paths[j]) # Len(paths[j + 1])
        /\ \A k \in 1..(j - 1) : Len(paths[k]) = Len(paths[k + 1])

\* ------------------------------------------------------------------ C11

\* C11: for N files of equal length and a source field name for each,
\* merge_fields returns one list of that length, in the order of the first
\* file, in which record i holds under the result key the sum of the values
\* files[j][i][src_keys[j]] (for three files: the three values added up),
\* holds every other field of the first file's record i unchanged and no
\* further field, and lacks the first source field exactly when the result
\* key is another field.
C11_Merged ==
    (MergeReturned /\ KeysCover) =>
        LET result == returned[1]
            N == Len(paths)
        IN  /\ Len(returned) = 1
            /\ \A j \in 1..N : Len(paths[j]) = Len(result)
            /\ \A i \in 1..Len(result) :
                 /\ MergeResultKey \in DOMAIN result[i]
                 /\ result[i][MergeResultKey] =
                        sum([j \in 1..N |-> paths[j][i][MergeKeys[j]]])
                 /\ N = 3 =>
                        result[i][MergeResultKey] =
                            paths[1][i][MergeKeys[1]] + paths[2][i][MergeKeys[2]]
                                + paths[3][i][MergeKeys[3]]
                 /\ \A f \in DOMAIN paths[1][i] \ {MergeKeys[1], MergeResultKey} :
                        f \in DOMAIN result[i] /\ result[i][f] = paths[1][i][f]
                 /\ DOMAIN result[i] \subseteq DOMAIN paths[1][i] \cup {MergeResultKey}
                 /\ (MergeKeys[1] \notin DOMAIN result[i]) <=>
                        (MergeResultKey # MergeKeys[1])

\* Three files of two records merged from the fields b, c and b into a new
\* field r, the first file's records keeping their c and losing their b.
C11_Witness ==
    /\ MergeReturned
    /\ Len(paths) = 3
    /\ src_keys = [list |-> <<"b", "c", "b">>]
    /\ result_key = "r"
    /\ Len(returned[1]) = 2
    /\ paths[1][1] = [b |-> 1, c |-> 2]
    /\ returned[1][1] = [c |-> 2, r |-> 4]

\* ------------------------------------------------------------------ C12

\* C12: merge_fields raises its ValueError if and only if the files do not
\* all have the same length; the error then names the two lengths of the
\* first neighbouring pair of files that differ, merge_fn was not called, no
\* record was changed and nothing is returned.
C12_LengthMismatch ==
    MergeLeftRead =>
        /\ (raised # NoError /\ raised[1] = "ValueError") <=> LengthsDiffer
        /\ LengthsDiffer =>
            /\ pc = "raised"
            /\ raised = <<"ValueError", "Lengths of jsonl files are not the same (",
                          ToString(Len(paths[FirstDifferingPair])), " != ",
                          ToString(Len(paths[FirstDifferingPair + 1])), ")">>
            /\ merge_fn_calls = <<>>
            /\ sources = paths
            /\ returned = <<>>

\* Files of 1, 1 and 2 records: the first pair agrees, the second differs.
C12_Witness ==
    /\ op = "merge_fields"
    /\ pc = "raised"
    /\ Len(paths) = 3
    /\ Len(paths[1]) = 1
    /\ Len(paths[2]) = 1
    /\ Len(paths[3]) = 2
    /\ raised[3] = "1"
    /\ raised[5] = "2"

\* ------------------------------------------------------------------ C13

\* C13 as stated: when merge_fields returns, merge_fn was called once per
\* index, each time with exactly one value per file, the j-th being
\* files[j][i][src_keys[j]] (a single name standing for every j): no file's
\* value is left out, whatever src_keys was given.
C13_AllGathered ==
    MergeReturned =>
        /\ Len(merge_fn_calls) = Len(returned[1])
        /\ \A i \in 1..Len(merge_fn_calls) :
             /\ Len(merge_fn_calls[i]) = Len(paths)
             /\ \A j \in 1..Len(paths) :
                  merge_fn_calls[i][j] = paths[j][i][MergeKeys[j]]

\* ---------------------------------- multi_field_transform: vocabulary

\* multi_field_transform has returned, or an exception has left it.
TransformLeft == op = "multi_field_transform" /\ pc # "transform_call"

TransformReturned == op = "multi_field_transform" /\ pc = "transform_returned"

\* The model names given, and the parameter names of transform_fn.
NamesGiven == {model_names[n] : n \in 1..Len(model_names)}

Params == {ParamNames[k] : k \in 1..Len(ParamNames)}

\* The field of a line that parameter p is read from for model name m.
ParamKey(p, m) == param_key_fn_map[p][m]

\* dst_key_fn gives different model names different fields.
DstInjective ==
    \A m, n \in NamesGiven : m # n => dst_key_fn[m] # dst_key_fn[n]

\* Line i of the input after the first k calls of transform_fn, each result
\* stored under the destination field of its model name.
RECURSIVE LineAfter(_, _)
LineAfter(i, k) ==
    IF k = 0 THEN inputFile[i]
    ELSE LET c == transform_fn_calls[k]
             before == LineAfter(i, k - 1)
         IN  IF c.line = i
             THEN SetItem(before, dst_key_fn[c.name], transform_fn(c.params))
             ELSE before

\* The first parameter, in the order of the map, whose field a line lacks
\* for model name m.
FirstMissingParam(line, m) ==
    CHOOSE k \in 1..Len(ParamNames) :
        /\ ParamKey(ParamNames[k], m) \notin DOMAIN line
        /\ \A h \in 1..(k - 1) : ParamKey(ParamNames[h], m) \in DOMAIN line

\* ------------------------------------------------------------------ C14

\* C14: multi_field_transform calls transform_fn for the lines in input
\* order and, within a line, for the model names in the order given, once
\* per pair; each call receives, for every parameter p, the value the line
\* holds at that moment under param_key_fn_map[p](name), and its result is
\* stored in the line under dst_key_fn(name).  A line that lacks one of
\* these fields raises KeyError for it and ends the call.  When it returns
\* and dst_key_fn is injective over the model names, every line holds, for
\* every model name, under its destination field the result of that model
\* name's own call: no later write replaced it.
C14_Transform ==
    TransformLeft =>
        LET M == Len(model_names)
            done == Len(transform_fn_calls)
        IN  /\ \A k \in 1..done :
                 LET c == transform_fn_calls[k]
                 IN  /\ c.line = ((k - 1) \div M) + 1
                     /\ c.name = model_names[((k - 1) % M) + 1]
                     /\ DOMAIN c.params = Params
                     /\ \A p \in Params :
                          /\ ParamKey(p, c.name) \in DOMAIN LineAfter(c.line, k - 1)
                          /\ c.params[p] =
                                LineAfter(c.line, k - 1)[ParamKey(p, c.name)]
            /\ Len(lines) = Len(inputFile)
            /\ \A i \in 1..Len(inputFile) : lines[i] = LineAfter(i, done)
            /\ pc = "transform_returned" =>
                 /\ done = Len(inputFile) * M
                 /\ returned = <<lines>>
                 /\ raised = NoError
            /\ pc = "raised" =>
                 /\ done < Len(inputFile) * M
                 /\ returned = <<>>
                 /\ LET i == (done \div M) + 1
                        m == model_names[(done % M) + 1]
                    IN  /\ \E p \in Params :
                              ParamKey(p, m) \notin DOMAIN LineAfter(i, done)
                        /\ raised =
                              KeyError(ParamKey(
                                  ParamNames[FirstMissingParam(LineAfter(i, done), m)],
                                  m))
            /\ (pc = "transform_returned" /\ DstInjective) =>
                 \A i \in 1..Len(inputFile) : \A n \in 1..M :
                    /\ dst_key_fn[model_names[n]] \in DOMAIN lines[i]
                    /\ lines[i][dst_key_fn[model_names[n]]] =
                          transform_fn(transform_fn_calls[(i - 1) * M + n].params)

\* Two lines transformed for two model names with different destination
\* fields: four calls of transform_fn.
C14_Witness ==
    /\ TransformReturned
    /\ Len(inputFile) = 2
    /\ model_names = <<"m2", "m1">>
    /\ DstInjective
    /\ Len(transform_fn_calls) = 4
    /\ transform_fn_calls[1].name = "m2"
    /\ lines[2][dst_key_fn["m1"]] >= 10

\* ------------------------------------------------------------------ C19

\* No model name's destination field is a field another model name reads a
\* parameter from.
NoFeedback ==
    \A m, n \in NamesGiven :
        m # n => \A p \in Params : dst_key_fn[m] # ParamKey(p, n)

\* Line i of the input holds every field some model name reads.
Readable(i) ==
    \A m \in NamesGiven : \A p \in Params : ParamKey(p, m) \in DOMAIN inputFile[i]

\* The parameters of model name m read from line i of the input as it was.
OriginalParams(i, m) == [p \in Params |-> inputFile[i][ParamKey(p, m)]]

\* Line i of the input with, under every model name's destination field,
\* transform_fn of that model name's original parameters: a function of the
\* set of model names, not of their order.
Expected(i) ==
    [f \in DOMAIN inputFile[i] \cup {dst_key_fn[m] : m \in NamesGiven} |->
        IF \E m \in NamesGiven : dst_key_fn[m] = f
        THEN transform_fn(OriginalParams(i, CHOOSE m \in NamesGiven : dst_key_fn[m] = f))
        ELSE inputFile[i][f]]

\* C19 as stated: with dst_key_fn injective over the model names, whatever
\* their order, every returned line holds under dst_key_fn(m) transform_fn
\* of the values the input line originally held at the parameter fields of
\* m, and is otherwise the input line.
C19_OrderFree ==
    (TransformReturned /\ DstInjective) =>
        \A i \in 1..Len(inputFile) : Readable(i) /\ lines[i] = Expected(i)

\* C19, amended: the same, provided also that no model name's destination
\* field is a parameter field of another model name.  The call then returns
\* exactly when every input line holds every parameter field, and what it
\* returns does not depend on the order of the model names; without the
\* proviso the model name taken later reads what the earlier one stored.
C19_OrderFreeWithoutFeedback ==
    (TransformLeft /\ DstInjective /\ NoFeedback) =>
        /\ pc = "transform_returned" <=> \A i \in 1..Len(inputFile) : Readable(i)
        /\ pc = "transform_returned" =>
             \A i \in 1..Len(inputFile) : lines[i] = Expected(i)

\* Two model names given in the order m2, m1, m1's result replacing a field
\* the input line held.
C19_Witness ==
    /\ TransformReturned
    /\ model_names = <<"m2", "m1">>
    /\ DstInjective
    /\ NoFeedback
    /\ Len(inputFile) >= 1
    /\ dst_key_fn["m1"] \in DOMAIN inputFile[1]
    /\ lines[1] # inputFile[1]

\* ------------------------------------------------------------------ C15

\* update_fields_unordered was called on its own and its first call of
\* _update_fields_unordered has returned.
EngineReturnedOnce == op = "update_fields_unordered" /\ ReturnedOnce

\* Base record i as the update leaves it: with every field of
\* keys_to_update taken from its match, when it has one.
Updated(i) ==
    IF Matched(i)
    THEN [f \in DOMAIN inputFile[i] \cup Names(keys_to_update) |->
            IF f \in Names(keys_to_update) THEN LastMatch(i)[f] ELSE inputFile[i][f]]
    ELSE inputFile[i]

\* C15 as stated: when _update_fields_unordered returns, the list of base
\* records and the list of other records that were passed to it hold what
\* they held before the call.
C15_InputsUntouched ==
    EngineReturnedOnce =>
        /\ base_jsonl = read_jsonl(inputFile)
        /\ other_jsonl = read_jsonl(otherFile)

\* C15, amended: when _update_fields_unordered returns, the list of other
\* records holds what it held before the call, and the list of base records
\* is the list returned: its records were updated in place, so that it
\* differs from what was passed in exactly when some matched record got a
\* new field or a new value.
C15_BaseUpdatedInPlace ==
    EngineReturnedOnce =>
        /\ other_jsonl = read_jsonl(otherFile)
        /\ base_jsonl = returned[1]
        /\ Len(base_jsonl) = Len(inputFile)
        /\ \A i \in 1..Len(inputFile) : base_jsonl[i] = Updated(i)
        /\ base_jsonl # read_jsonl(inputFile) <=>
               \E i \in 1..Len(inputFile) :
                   /\ Matched(i)
                   /\ \E f \in Names(keys_to_update) :
                        \/ f \notin DOMAIN inputFile[i]
                        \/ inputFile[i][f] # LastMatch(i)[f]

\* A base of two records of which the second was given another b: the list
\* passed in has changed.
C15_Witness ==
    /\ EngineReturnedOnce
    /\ Len(inputFile) = 2
    /\ base_jsonl[1] = inputFile[1]
    /\ "b" \in DOMAIN inputFile[2]
    /\ base_jsonl[2]["b"] # inputFile[2]["b"]
    /\ other_jsonl = otherFile

\* ------------------------------------------------------------------ C17

\* update_fields_unordered was called on its own and has got past the
\* building of the index.
IndexLeft == op = "update_fields_unordered" /\ pc # "unordered_call"

\* The first record of other without the primary key.
FirstUnkeyed ==
    CHOOSE j \in 1..Len(otherFile) :
        /\ PrimaryKey \notin DOMAIN otherFile[j]
        /\ \A k \in 1..(j - 1) : PrimaryKey \in DOMAIN otherFile[k]

Wrote == "write_jsonl" \in Names(calls)

\* update_with_args has failed: an exception has left it, or it has returned
\* on an empty file.
CommandFailed ==
    /\ op = "update_with_args"
    /\ \/ pc = "raised"
       \/ pc = "cmd_returned" /\ (otherFile = <<>> \/ inputFile = <<>>)

\* C16: when update_with_args fails (a file cannot be read, a file is
\* empty, a record lacks the primary key or a field to copy) write_jsonl was
\* not called and the output holds what it held before.  write_jsonl is
\* called at most once, after update_fields_unordered has returned the
\* whole list, with that list, and nothing is called after it.
C16_WriteLast ==
    op = "update_with_args" =>
        /\ CommandFailed => ~Wrote
        /\ ~Wrote => outputFile = PriorOutput
        /\ Wrote =>
            /\ pc = "cmd_returned"
            /\ raised = NoError
            /\ calls[Len(calls)] = "write_jsonl"
            /\ Cardinality({k \in 1..Len(calls) : calls[k] = "write_jsonl"}) = 1
            /\ Len(returned) = 1
            /\ outputFile = returned[1]
            /\ Len(outputFile) = Len(inputFile)

\* The update fails on the second base record, whose match lacks b, after
\* the first was updated in memory: the output is as it was.
C16_Witness ==
    /\ op = "update_with_args"
    /\ pc = "raised"
    /\ raised = KeyError("b")
    /\ Len(inputFile) = 2
    /\ base_jsonl[1] # inputFile[1]
    /\ outputFile = PriorOutput

\* ------------------------------------------------------------------ C20

\* update_with_args has written its output under the default policy:
\* neither columns nor --overwrite.
AdditiveWritten ==
    /\ Resolved
    /\ pc = "cmd_returned"
    /\ columns = <<>>
    /\ ~overwrite

\* The fields the default policy chooses: those of other's first record
\* that base's first record lacks.
AddedFields == DOMAIN otherFile[1] \ DOMAIN inputFile[1]

CliDone == op = "cli" /\ pc \in {"cli_returned", "cli_exit"}

\* The options of the update subcommand, and the ones add_update_args
\* requires.
UpdateOptions ==
    {"--input", "--output", "--other", "--key", "--overwrite", "--columns"}

UpdateRequired == {"--input", "--other", "--key"}

\* C18 as stated: `update` with its required options and any of its other
\* options runs update_with_args; every registered subcommand whose command
\* line parses runs its own handler and no other; with no subcommand the
\* help is printed and no handler runs.
C18_UpdateDispatched ==
    CliDone =>
        /\ (/\ argv.cmd = "update"
            /\ UpdateRequired \subseteq argv.opts
            /\ argv.opts \subseteq UpdateOptions) =>
               calls = <<"update_with_args">>
        /\ (argv.cmd \in Registered /\ pc = "cli_returned") =>
               calls = <<Handlers[argv.cmd]>>
        /\ (argv.cmd = "" /\ argv.opts = {}) =>
               /\ printed = <<"help">>
               /\ calls = <<>>

\* ------------------------------------------------------------------ C21

\* dedupe has written its output.
DedupeWritten == op = "dedupe" /\ pc = "dedupe_returned"

\* The first and the last line of the input with primary-key value v.
FirstAt(v) ==
    CHOOSE j \in Positions(inputFile, v) : \A k \in Positions(inputFile, v) : j <= k

LastAt(v) ==
    CHOOSE j \in Positions(inputFile, v) : \A k \in Positions(inputFile, v) : k <= j

\* C21: dedupe writes one record for every primary-key value of the input
\* and no other: for each value the last input record that holds it, the
\* records standing in the order in which their values first occur in the
\* input; an input without a repeated value is written as it is.  An input
\* with a record that lacks the primary key raises KeyError and nothing is
\* written.
C21_Dedupe ==
    /\ (op = "dedupe" /\ pc # "dedupe_call") =>
           (pc = "raised" <=> ~AllKeyed(inputFile))
    /\ (op = "dedupe" /\ pc = "raised") =>
           /\ raised = KeyError(PrimaryKey)
           /\ outputFile = PriorOutput
    /\ DedupeWritten =>
        LET values == {inputFile[j][PrimaryKey] : j \in 1..Len(inputFile)}
        IN  /\ Len(outputFile) = Cardinality(values)
            /\ \A v \in values :
                 \E k \in 1..Len(outputFile) :
                    /\ outputFile[k] = inputFile[LastAt(v)]
                    /\ \A h \in 1..Len(outputFile) :
                         outputFile[h][PrimaryKey] = v => h = k
            /\ \A h, k \in 1..Len(outputFile) :
                 h < k =>
                    FirstAt(outputFile[h][PrimaryKey]) < FirstAt(outputFile[k][PrimaryKey])
            /\ NoDuplicates(inputFile) => outputFile = inputFile

\* Key value 1, then 2, then 1 again with another b: the last record of
\* value 1 is written first, the record of value 2 second.
C21_Witness ==
    /\ DedupeWritten
    /\ Len(inputFile) = 3
    /\ inputFile[1] = [id |-> 1, b |-> 1]
    /\ inputFile[2][PrimaryKey] = 2
    /\ inputFile[3] = [id |-> 1, b |-> 2]
    /\ outputFile = <<inputFile[3], inputFile[2]>>

\* ------------------------------------------------------------------ C22

\* pick has emptied the output and is asking, or has returned.
PickStarted == op = "pick" /\ pc # "pick_call"

\* What an answer comes to once trimmed and lower-cased.
Normal(answer) == lower(strip(answer))

\* The answers the claim calls affirmative, and those it calls negative.
Affirmative(answer) == Normal(answer) \in {<<"y">>, <<"y", "e", "s">>, <<>>}

Negative(answer) == Normal(answer) \in {<<"n">>, <<"n", "o">>}

\* The first k records of the input without those answered negatively.
RECURSIVE KeptAmong(_)
KeptAmong(k) ==
    IF k = 0 THEN <<>>
    ELSE IF Affirmative(decided[k]) THEN Append(KeptAmong(k - 1), lines[k])
    ELSE KeptAmong(k - 1)

\* C22 as stated: once pick has emptied the output, every record decided so
\* far was decided by an answer that is, trimmed and lower-cased, one of y,
\* yes, n, no or empty; the output holds, in input order, exactly the
\* decided records whose answer was y, yes or empty, and none whose answer
\* was n or no; an answer that is none of the five leaves the record in
\* turn undecided.
C22_OutputIsKept ==
    PickStarted =>
        /\ Len(decided) <= Len(lines)
        /\ \A k \in 1..Len(decided) : Affirmative(decided[k]) \/ Negative(decided[k])
        /\ outputFile = KeptAmong(Len(decided))
        /\ pc = "pick_returned" <=> Len(decided) = Len(lines)

====
